---- MODULE Spec2Model ----
(***************************************************************************)
(* TinyG controller.c (firmware/tinyg_331.24): the top-level controller.   *)
(* tg_controller() runs _controller_HSM() forever; each pass probes 13     *)
(* tasks through the DISPATCH macro, which returns from the pass as soon   *)
(* as a task returns TG_EAGAIN.  The last task, _dispatch(), reads a line  *)
(* from the active source and routes it by its first character.            *)
(*                                                                         *)
(* Collaborators that live outside controller.c (xio_gets, the parsers,    *)
(* the planner callbacks, the gpio switch handler, the ISRs that set the   *)
(* signal flags) are inputs: their results are drawn from small sets.      *)
(***************************************************************************)
EXTENDS Integers, Sequences, FiniteSets, TLC

VARIABLES
    tg,           \* controller singleton: src, default_src, communications_mode,
                  \*   prompt_enabled (in_buf and out_buf are written before they
                  \*   are read in every call of _dispatch: they are its locals)
    sig,          \* signal flags: sig_abort, sig_feedhold, sig_cycle_start
    pc,           \* 0: between passes; 1..13: the task _controller_HSM probes next
    hstep,        \* position inside a signal handler: "test", "clear" or "call"
    ret,          \* value returned by the task probed last in this pass
    ran,          \* tasks probed in this pass, in the order they were probed
    eagain,       \* tasks of this pass that returned TG_EAGAIN
    evt,          \* calls made by controller.c in this pass, in order
    out,          \* what controller.c wrote to stderr in this pass, in order
    tx_bufcount,  \* TX queue depth of each serial device as read in this pass
    planner_free, \* result of mp_test_write_buffer() as read in this pass
    sets,         \* per signal: number of external set events so far
    edges,        \* per signal: number of set events that found the flag clear
    calls         \* per signal: number of calls of its transition so far

vars == <<tg, sig, pc, hstep, ret, ran, eagain, evt, out,
          tx_bufcount, planner_free, sets, edges, calls>>

(***************************************************************************)
(* Bounds of the model                                                     *)
(***************************************************************************)
MaxSetEvents == 2      \* external set events, all signals together
MaxTxCount == 3        \* largest TX queue depth the gate can read
MaxStatusArg == 35     \* largest status the message functions are given

(***************************************************************************)
(* Status codes: the index of each message in msgStatus[]                  *)
(***************************************************************************)
TG_OK == 0
TG_ERR == 1
TG_EAGAIN == 2
TG_NOOP == 3
TG_EOF == 6
TG_BUFFER_FULL_NON_FATAL == 12
TG_UNRECOGNIZED_COMMAND == 14
TG_JSON_SYNTAX_ERROR == 17

\* low-water mark of the USB TX queue (value set in xio_usart.h; a small
\* stand-in that keeps depths below, at and above the mark within MaxTxCount)
XOFF_TX_LO_WATER_MARK == 2

NUL == "NUL"

Signals == {"sig_abort", "sig_feedhold", "sig_cycle_start"}

\* xio devices: two serial devices and the program-memory file device
SerialDevices == {"XIO_DEV_RS485", "XIO_DEV_USB"}
XIO_DEV_USB == "XIO_DEV_USB"
XIO_DEV_PGM == "XIO_DEV_PGM"
Devices == SerialDevices \cup {XIO_DEV_PGM}

Modes == {"TG_TEXT_MODE", "TG_JSON_MODE", "TG_GRBL_MODE"}

\* positions of the tasks in _controller_HSM
T_gpio_switch_handler == 1
T_abort_handler == 2
T_feedhold_handler == 3
T_cycle_start_handler == 4
T_rpt_status_report_callback == 5
T_mp_plan_hold_callback == 6
T_mp_end_hold_callback == 7
T_ar_arc_callback == 8
T_cm_homing_callback == 9
T_cm_return_to_home_callback == 10
T_sync_to_tx_buffer == 11
T_sync_to_planner == 12
T_dispatch == 13
NumTasks == 13

\* tasks implemented outside controller.c: they only return a status
ExternalTasks == {T_gpio_switch_handler} \cup
                 (T_rpt_status_report_callback .. T_cm_return_to_home_callback)

\* statuses an external task can return
CallbackStatus == {TG_OK, TG_ERR, TG_EAGAIN}

\* statuses the parsers can return
ParserStatus == {TG_OK, TG_EAGAIN, TG_NOOP, TG_UNRECOGNIZED_COMMAND,
                 TG_JSON_SYNTAX_ERROR}

\* text is a sequence of characters; the lines xio_gets can deliver
Lines == { <<>>, <<"h">>, <<"T">>, <<"u">>, <<"$", "x">>, <<"?">>,
           <<"{", "b", "}">>, <<"g", "0">>, <<"%">> }

UnitsModes == {"INCHES", "MILLIMETERS"}

(***************************************************************************)
(* Status messages and prompts                                             *)
(***************************************************************************)
msgStatus ==
    <<"OK", "Error", "Eagain", "Noop", "Complete", "End of line",
      "End of file", "File not open", "Max file size exceeded",
      "No such device", "Buffer empty", "Buffer full - fatal",
      "Buffer full - non-fatal", "Quit", "Unrecognized command",
      "Number range error", "Expected command letter", "JSON sysntax error",
      "Input exceeds max length", "Output exceeds max length",
      "Internal error", "Bad number format", "Floating point error",
      "Arc specification error", "Zero length line", "Gcode input error",
      "Gcode feedrate error", "Gcode axis word missing",
      "Gcode modal group violation", "Homing cycle failed",
      "Max travel exceeded", "Max spindle speed exceeded">>

\* msgStatus[] is indexed from 0 in the source: the message of a defined code
StatusMessage(status) == msgStatus[status + 1]

\* a status is a uint8_t; the statuses the message functions are called with
\* are the codes of the table and the first ones past its end
StatusArgs == 0 .. MaxStatusArg

\* what a read past the end of msgStatus[] can find in program memory: the
\* word read is taken as the address of a string
WildMessages == {"", "?", "OK"}

\* nothing is left to the build when the read is inside the table
WildFor(status) ==
    IF status \in 0 .. Len(msgStatus) - 1 THEN {""} ELSE WildMessages

\* (PGM_P)pgm_read_word(&msgStatus[status]): no test of status against the
\* size of the table; wild is what a read past its end finds
pgm_read_msgStatus(status, wild) ==
    IF status \in 0 .. Len(msgStatus) - 1 THEN StatusMessage(status) ELSE wild

\* strncpy_P(msg, ..., STATUS_MESSAGE_LEN): the text left in msg
tg_get_status_message(status, wild) == << pgm_read_msgStatus(status, wild) >>

pr1 == "tinyg"
pr_in == "[inch] ok> "
pr_mm == "[mm] ok> "

\* one write to stderr: the format (or literal), the message and the buffer
Emit(fmt, msg, buf) == [fmt |-> fmt, msg |-> msg, buf |-> buf]

\* toupper() on the characters that occur in Lines
\* mutant: the character is left in its case
toupper_as_is(c) == c

toupper(c) ==
    CASE c = "h" -> "H"
      [] c = "t" -> "T"
      [] c = "u" -> "U"
      [] c = "g" -> "G"
      [] c = "b" -> "B"
      [] c = "x" -> "X"
      [] OTHER -> c

\* buf[0] of a C string: NUL when the string is empty
FirstChar(buf) == IF Len(buf) = 0 THEN NUL ELSE buf[1]

(***************************************************************************)
(* Input source controls                                                   *)
(***************************************************************************)
\* mutant: prompting stays enabled for every device
set_active_source_prompt_on(t, dev) ==
    [t EXCEPT !.src = dev, !.prompt_enabled = TRUE]

set_active_source(t, dev) ==
    [t EXCEPT !.src = dev, !.prompt_enabled = (dev # XIO_DEV_PGM)]

\* mutant: the source is left as it is
tg_reset_source_keep(t) == t

\* mutant: the reset goes to the USB device whatever the default source is
tg_reset_source_usb(t) == set_active_source(t, XIO_DEV_USB)

tg_reset_source(t) == set_active_source(t, t.default_src)

\* xio_set_stderr(STD_ERROR): STD_ERROR is defined in a header of the
\* application; it is the secondary device, the serial device that is not
\* the one given to tg_init() as the default source
STD_ERROR(t) == CHOOSE d \in SerialDevices : d # t.default_src

tg_init(t, default_src) ==
    [set_active_source([t EXCEPT !.default_src = default_src], default_src)
        EXCEPT !.communications_mode = "TG_TEXT_MODE"]

\* tg_application_init() is in main.c: it re-runs the subsystem inits, the
\* controller's among them, with the default source it was started with
tg_application_init(t) == tg_init(t, t.default_src)

\* mutant: the reset does nothing
tg_reset_no_init(t) == t

tg_reset(t) == tg_application_init(t)

(***************************************************************************)
(* Prompting and responses                                                 *)
(***************************************************************************)
prompt_without_message(units) ==
    IF units = "INCHES" THEN << Emit("%S%S", pr1, <<pr_in>>) >>
                        ELSE << Emit("%S%S", pr1, <<pr_mm>>) >>

prompt_with_message(status, buf, units, wild) ==
    << Emit("%S: %s \n", pgm_read_msgStatus(status, wild), buf) >>
        \o prompt_without_message(units)

\* mutant: GRBL mode answers "err" for TG_OK and "ok" otherwise
dispatch_return_grbl_swapped(mode, status, buf, units, wild) ==
    IF mode = "TG_JSON_MODE" THEN << Emit("%s", "", buf) >>
    ELSE IF mode = "TG_GRBL_MODE" THEN
        (IF status = TG_OK THEN << Emit("err", "", <<>>) >>
                           ELSE << Emit("ok", "", <<>>) >>)
    ELSE IF mode = "TG_TEXT_MODE" THEN
        (IF status \in {TG_OK, TG_EAGAIN, TG_NOOP}
            THEN prompt_without_message(units)
            ELSE prompt_with_message(status, buf, units, wild))
    ELSE << >>

\* mutant: text mode sends the bare prompt for TG_OK only
dispatch_return_text_ok_only(mode, status, buf, units, wild) ==
    IF mode = "TG_JSON_MODE" THEN << Emit("%s", "", buf) >>
    ELSE IF mode = "TG_GRBL_MODE" THEN
        (IF status = TG_OK THEN << Emit("ok", "", <<>>) >>
                           ELSE << Emit("err", "", <<>>) >>)
    ELSE IF mode = "TG_TEXT_MODE" THEN
        (IF status = TG_OK
            THEN prompt_without_message(units)
            ELSE prompt_with_message(status, buf, units, wild))
    ELSE << >>

\* mutant: JSON mode sends the prompt after the buffer
dispatch_return_json_prompt(mode, status, buf, units, wild) ==
    IF mode = "TG_JSON_MODE"
       THEN << Emit("%s", "", buf) >> \o prompt_without_message(units)
    ELSE IF mode = "TG_GRBL_MODE" THEN
        (IF status = TG_OK THEN << Emit("ok", "", <<>>) >>
                           ELSE << Emit("err", "", <<>>) >>)
    ELSE IF mode = "TG_TEXT_MODE" THEN
        (IF status \in {TG_OK, TG_EAGAIN, TG_NOOP}
            THEN prompt_without_message(units)
            ELSE prompt_with_message(status, buf, units, wild))
    ELSE << >>

dispatch_return(mode, status, buf, units, wild) ==
    IF mode = "TG_JSON_MODE" THEN << Emit("%s", "", buf) >>
    ELSE IF mode = "TG_GRBL_MODE" THEN
        (IF status = TG_OK THEN << Emit("ok", "", <<>>) >>
                           ELSE << Emit("err", "", <<>>) >>)
    ELSE IF mode = "TG_TEXT_MODE" THEN
        (IF status \in {TG_OK, TG_EAGAIN, TG_NOOP}
            THEN prompt_without_message(units)
            ELSE prompt_with_message(status, buf, units, wild))
    ELSE << >>

(***************************************************************************)
(* JSON response for a Gcode block                                         *)
(***************************************************************************)
cmdObj(token, value_type, string_value, value) ==
    [token |-> token, value_type |-> value_type,
     string_value |-> string_value, value |-> value]

\* js_make_json_string() is the serializer of json_parser.c: the text of a
\* cmd list is the tokens and values of its objects, in list order
js_make_json_string(cmd_array) ==
    LET text(cmd) ==
            CASE cmd.value_type = "VALUE_TYPE_PARENT" -> << cmd.token, "{" >>
              [] cmd.value_type = "VALUE_TYPE_STRING" ->
                    << cmd.token >> \o cmd.string_value
              [] cmd.value_type = "VALUE_TYPE_INTEGER" ->
                    << cmd.token, ToString(cmd.value) >>
        flat[i \in 0 .. Len(cmd_array)] ==
            IF i = 0 THEN << >> ELSE flat[i - 1] \o text(cmd_array[i])
    IN  flat[Len(cmd_array)]

\* what sprintf() writes for a conversion that has no argument: the output
\* stops there, or whatever is converted follows
SprintfUndefined == { << >>, << "?" >> }

\* sprintf(dst, fmt) with no arguments: the characters of fmt, "%%" giving
\* "%"; any other "%" is a conversion without an argument, and undef is
\* what is written from there on
RECURSIVE sprintf(_, _)
sprintf(fmt, undef) ==
    IF fmt = << >> THEN << >>
    ELSE IF Head(fmt) # "%" THEN << Head(fmt) >> \o sprintf(Tail(fmt), undef)
    ELSE IF Len(fmt) >= 2 /\ fmt[2] = "%"
            THEN << "%" >> \o sprintf(Tail(Tail(fmt)), undef)
            ELSE undef

\* the block is the format of sprintf(cmd->string_value, block)
tg_make_json_gcode_response(status, block, undef, wild) ==
    js_make_json_string(
        << cmdObj("gc", "VALUE_TYPE_PARENT", << >>, 0),
           cmdObj("gc", "VALUE_TYPE_STRING", sprintf(block, undef), 0),
           cmdObj("st", "VALUE_TYPE_INTEGER", << >>, status),
           cmdObj("msg", "VALUE_TYPE_STRING",
                  tg_get_status_message(status, wild), 0) >>)

\* js_json_parser() fills out_buf with its own response to the line
js_json_parser_out(line, status) ==
    js_make_json_string(
        << cmdObj("r", "VALUE_TYPE_STRING", line, 0),
           cmdObj("st", "VALUE_TYPE_INTEGER", << >>, status) >>)

(***************************************************************************)
(* The pass: DISPATCH and the tasks                                        *)
(***************************************************************************)
\* one entry of evt: the function called, the status it returned (or was
\* given), the text it was given and the active source at the call
\* and the communications mode at the call
CallIn(t, name, st, buf) ==
    [call |-> name, st |-> st, buf |-> buf, src |-> t.src,
     mode |-> t.communications_mode]

Call(name, st, buf) == CallIn(tg, name, st, buf)

\* mutant: the macro calls the task and never returns from the pass
DISPATCH_no_return(task, status) ==
    /\ ret' = status
    /\ ran' = Append(ran, task)
    /\ eagain' = IF status = TG_EAGAIN THEN eagain \cup {task} ELSE eagain
    /\ pc' = IF task = NumTasks THEN 0 ELSE task + 1

\* mutant: the macro returns from the pass on every status but TG_OK
DISPATCH_return_unless_ok(task, status) ==
    /\ ret' = status
    /\ ran' = Append(ran, task)
    /\ eagain' = IF status = TG_EAGAIN THEN eagain \cup {task} ELSE eagain
    /\ pc' = IF status # TG_OK \/ task = NumTasks THEN 0 ELSE task + 1

\* #define DISPATCH(func) if (func == TG_EAGAIN) return;
\* the task returned status: the pass ends on TG_EAGAIN and after the last
\* task, and goes on to the next task otherwise
DISPATCH(task, status) ==
    /\ ret' = status
    /\ ran' = Append(ran, task)
    /\ eagain' = IF status = TG_EAGAIN THEN eagain \cup {task} ELSE eagain
    /\ pc' = IF status = TG_EAGAIN \/ task = NumTasks THEN 0 ELSE task + 1

\* mutant: the next pass resumes after the task that ended the last one
tg_controller_resume ==
    /\ pc = 0
    /\ pc' = IF eagain # {} /\ Len(ran) < NumTasks THEN Len(ran) + 1
                                                   ELSE T_gpio_switch_handler
    /\ ret' = TG_OK
    /\ ran' = << >>
    /\ eagain' = {}
    /\ evt' = << >>
    /\ out' = << >>
    /\ tx_bufcount' = [d \in SerialDevices |-> 0]
    /\ planner_free' = TRUE
    /\ UNCHANGED <<tg, sig, hstep, sets, edges, calls>>

\* while (true) { _controller_HSM(); }: the next pass starts from the top
tg_controller ==
    /\ pc = 0
    /\ pc' = T_gpio_switch_handler
    /\ ret' = TG_OK
    /\ ran' = << >>
    /\ eagain' = {}
    /\ evt' = << >>
    /\ out' = << >>
    /\ tx_bufcount' = [d \in SerialDevices |-> 0]
    /\ planner_free' = TRUE
    /\ UNCHANGED <<tg, sig, hstep, sets, edges, calls>>

\* gpio_switch_handler() and the planner/cycle callbacks: any status
external_task ==
    /\ pc \in ExternalTasks
    /\ \E status \in CallbackStatus : DISPATCH(pc, status)
    /\ UNCHANGED <<tg, sig, hstep, evt, out, tx_bufcount, planner_free,
                   sets, edges, calls>>

(***************************************************************************)
(* Signals: the flags are set in ISRs, the handlers run in the pass        *)
(***************************************************************************)
HandlerTask(s) ==
    CASE s = "sig_abort" -> T_abort_handler
      [] s = "sig_feedhold" -> T_feedhold_handler
      [] s = "sig_cycle_start" -> T_cycle_start_handler

\* an ISR sets the flag, at any point of the pass
sig_set(s) ==
    /\ sets["sig_abort"] + sets["sig_feedhold"] + sets["sig_cycle_start"]
          < MaxSetEvents
    /\ sig' = [sig EXCEPT ![s] = TRUE]
    /\ sets' = [sets EXCEPT ![s] = @ + 1]
    /\ edges' = [edges EXCEPT ![s] = IF sig[s] THEN @ ELSE @ + 1]
    /\ UNCHANGED <<tg, pc, hstep, ret, ran, eagain, evt, out,
                   tx_bufcount, planner_free, calls>>

sig_isr == \E s \in Signals : sig_set(s)

\* mutant: an unset flag makes the handler return TG_OK
handler_test_returns_ok(s) ==
    /\ pc = HandlerTask(s)
    /\ hstep = "test"
    /\ IF sig[s]
          THEN /\ hstep' = "clear"
               /\ UNCHANGED <<pc, ret, ran, eagain>>
          ELSE /\ DISPATCH(HandlerTask(s), TG_OK)
               /\ UNCHANGED hstep
    /\ UNCHANGED <<tg, sig, evt, out, tx_bufcount, planner_free,
                   sets, edges, calls>>

\* if (sig.sig_x == false) { return (TG_NOOP);}
handler_test(s) ==
    /\ pc = HandlerTask(s)
    /\ hstep = "test"
    /\ IF sig[s]
          THEN /\ hstep' = "clear"
               /\ UNCHANGED <<pc, ret, ran, eagain>>
          ELSE /\ DISPATCH(HandlerTask(s), TG_NOOP)
               /\ UNCHANGED hstep
    /\ UNCHANGED <<tg, sig, evt, out, tx_bufcount, planner_free,
                   sets, edges, calls>>

\* mutant: the flag is not cleared
handler_clear_keeps_flag(s) ==
    /\ pc = HandlerTask(s)
    /\ hstep = "clear"
    /\ evt' = Append(evt, Call(s, TG_OK, << >>))
    /\ hstep' = "call"
    /\ UNCHANGED <<tg, sig, pc, ret, ran, eagain, out, tx_bufcount, planner_free,
                   sets, edges, calls>>

\* sig.sig_x = false;
handler_clear(s) ==
    /\ pc = HandlerTask(s)
    /\ hstep = "clear"
    /\ sig' = [sig EXCEPT ![s] = FALSE]
    /\ evt' = Append(evt, Call(s, TG_OK, << >>))
    /\ hstep' = "call"
    /\ UNCHANGED <<tg, pc, ret, ran, eagain, out, tx_bufcount, planner_free,
                   sets, edges, calls>>

\* mutant: the flag is cleared once more after the transition
handler_call_clears_after(s, transition, t) ==
    /\ pc = HandlerTask(s)
    /\ hstep = "call"
    /\ tg' = t
    /\ sig' = [sig EXCEPT ![s] = FALSE]
    /\ evt' = Append(evt, Call(transition, TG_OK, << >>))
    /\ calls' = [calls EXCEPT ![s] = @ + 1]
    /\ hstep' = "test"
    /\ DISPATCH(HandlerTask(s), TG_EAGAIN)
    /\ UNCHANGED <<out, tx_bufcount, planner_free, sets, edges>>

\* mutant: the handler returns TG_OK after the transition
handler_call_returns_ok(s, transition, t) ==
    /\ pc = HandlerTask(s)
    /\ hstep = "call"
    /\ tg' = t
    /\ evt' = Append(evt, Call(transition, TG_OK, << >>))
    /\ calls' = [calls EXCEPT ![s] = @ + 1]
    /\ hstep' = "test"
    /\ DISPATCH(HandlerTask(s), TG_OK)
    /\ UNCHANGED <<sig, out, tx_bufcount, planner_free, sets, edges>>

\* the transition, then return (TG_EAGAIN);
handler_call(s, transition, t) ==
    /\ pc = HandlerTask(s)
    /\ hstep = "call"
    /\ tg' = t
    /\ evt' = Append(evt, Call(transition, TG_OK, << >>))
    /\ calls' = [calls EXCEPT ![s] = @ + 1]
    /\ hstep' = "test"
    /\ DISPATCH(HandlerTask(s), TG_EAGAIN)
    /\ UNCHANGED <<sig, out, tx_bufcount, planner_free, sets, edges>>

abort_handler ==
    \/ handler_test("sig_abort")
    \/ handler_clear("sig_abort")
    \/ handler_call("sig_abort", "tg_reset", tg_reset(tg))

feedhold_handler ==
    \/ handler_test("sig_feedhold")
    \/ handler_clear("sig_feedhold")
    \/ handler_call("sig_feedhold", "cm_feedhold", tg)

cycle_start_handler ==
    \/ handler_test("sig_cycle_start")
    \/ handler_clear("sig_cycle_start")
    \/ handler_call("sig_cycle_start", "cm_cycle_start", tg)

(***************************************************************************)
(* Flow-control gates                                                      *)
(***************************************************************************)
\* mutant: the gate closes above the mark only
sync_to_tx_buffer_status_gt(count) ==
    IF count[XIO_DEV_USB] > XOFF_TX_LO_WATER_MARK THEN TG_EAGAIN ELSE TG_OK

\* the decision of _sync_to_tx_buffer() on the depths read from the devices
sync_to_tx_buffer_status(count) ==
    IF count[XIO_DEV_USB] >= XOFF_TX_LO_WATER_MARK THEN TG_EAGAIN ELSE TG_OK

sync_to_tx_buffer ==
    /\ pc = T_sync_to_tx_buffer
    /\ \E count \in [SerialDevices -> 0 .. MaxTxCount] :
          /\ tx_bufcount' = count
          /\ DISPATCH(T_sync_to_tx_buffer, sync_to_tx_buffer_status(count))
    /\ UNCHANGED <<tg, sig, hstep, evt, out, planner_free, sets, edges, calls>>

\* mutant: the gate is always open
sync_to_planner_status_open(free) == TG_OK

\* mutant: the test is inverted
sync_to_planner_status_inverted(free) == IF free = TRUE THEN TG_EAGAIN ELSE TG_OK

\* the decision of _sync_to_planner() on the result of mp_test_write_buffer()
sync_to_planner_status(free) == IF free = FALSE THEN TG_EAGAIN ELSE TG_OK

sync_to_planner ==
    /\ pc = T_sync_to_planner
    /\ \E free \in BOOLEAN :
          /\ planner_free' = free
          /\ DISPATCH(T_sync_to_planner, sync_to_planner_status(free))
    /\ UNCHANGED <<tg, sig, hstep, evt, out, tx_bufcount, sets, edges, calls>>

(***************************************************************************)
(* _dispatch(): read a line from the active source and route it            *)
(***************************************************************************)
\* statuses of xio_gets(): EOF can come from file devices only
GetsStatus(src) ==
    IF src = XIO_DEV_PGM THEN {TG_OK, TG_EOF}
                         ELSE {TG_OK, TG_EAGAIN, TG_BUFFER_FULL_NON_FATAL}

\* what _dispatch() does, calls, writes and returns
Done(t, o, e, r) == [tg |-> t, out |-> o, evt |-> e, ret |-> r]

\* mutant: a config line sets text mode whatever the mode is
config_mode_always_text(mode) == "TG_TEXT_MODE"

\* if (tg.communications_mode != TG_GRBL_MODE) {
\*     tg.communications_mode = TG_TEXT_MODE; }
config_mode(mode) == IF mode # "TG_GRBL_MODE" THEN "TG_TEXT_MODE" ELSE mode

\* the switch on toupper(tg.in_buf[0]); line is tg.in_buf, pstatus is what
\* the parser called for this line returns, undef what sprintf() makes of
\* a "%" in the line and wild what msgStatus[] gives past its end
dispatch_line(line, pstatus, units, undef, wild) ==
    LET c == toupper(FirstChar(line))
        mode == tg.communications_mode
        gets == Call("xio_gets", TG_OK, line)
    IN  CASE c \in {"T", "U"} ->
                Done(set_active_source(tg, XIO_DEV_PGM), << >>,
                     << gets, Call("xio_open_pgm", TG_OK, << >>) >>, TG_OK)
          [] c = NUL ->
                Done(tg, dispatch_return(mode, TG_OK, line, units, wild),
                     << gets, Call("_dispatch_return", TG_OK, line) >>, TG_OK)
          [] c = "H" ->
                Done(tg,
                     << Emit("help_print_general_help", "", << >>) >>
                        \o dispatch_return(mode, TG_OK, line, units, wild),
                     << gets, Call("help_print_general_help", TG_OK, << >>),
                        Call("_dispatch_return", TG_OK, line) >>, TG_OK)
          [] c \in {"$", "?"} ->
                LET t2 == [tg EXCEPT !.communications_mode = config_mode(mode)]
                IN  Done(t2,
                         dispatch_return(t2.communications_mode, pstatus,
                                         line, units, wild),
                         << gets, CallIn(t2, "cfg_config_parser", pstatus, line),
                            CallIn(t2, "_dispatch_return", pstatus, line) >>,
                         TG_OK)
          [] c = "{" ->
                LET out_buf == js_json_parser_out(line, pstatus)
                    t2 == [tg EXCEPT !.communications_mode = "TG_JSON_MODE"]
                IN  Done(t2,
                         dispatch_return(t2.communications_mode, pstatus,
                                         out_buf, units, wild),
                         << gets, CallIn(t2, "js_json_parser", pstatus, line),
                            CallIn(t2, "_dispatch_return", pstatus, out_buf) >>,
                         TG_OK)
          [] OTHER ->
                IF mode = "TG_JSON_MODE"
                   THEN LET out_buf == tg_make_json_gcode_response(pstatus, line,
                                                                      undef, wild)
                        IN  Done(tg,
                                 \* _dispatch_return(NUL, ...): status 0
                                 dispatch_return(mode, TG_OK, out_buf, units, wild),
                                 << gets, Call("gc_gcode_parser", pstatus, line),
                                    Call("tg_make_json_gcode_response", pstatus, line),
                                    Call("_dispatch_return", TG_OK, out_buf) >>,
                                 TG_OK)
                   ELSE Done(tg, dispatch_return(mode, pstatus, line, units, wild),
                             << gets, Call("gc_gcode_parser", pstatus, line),
                                Call("_dispatch_return", pstatus, line) >>, TG_OK)

\* status is what xio_gets() returns and line what it leaves in tg.in_buf
dispatch_body(status, line, pstatus, units, undef, wild) ==
    IF status # TG_OK
       THEN IF status = TG_EOF
               THEN Done(tg_reset_source(tg),
                         << Emit("End of command file\n", "", << >>) >>,
                         << Call("xio_gets", status, << >>),
                            Call("tg_reset_source", TG_OK, << >>) >>, status)
               ELSE Done(tg, << >>, << Call("xio_gets", status, << >>) >>, status)
       ELSE dispatch_line(line, pstatus, units, undef, wild)

\* _dispatch() with the lines xio_gets() can deliver, the statuses the
\* parsers can return and the units the prompt can find
dispatch_reading(lines, pstatuses, unitses) ==
    /\ pc = T_dispatch
    /\ \E status \in GetsStatus(tg.src), line \in lines,
          pstatus \in pstatuses, units \in unitses,
          undef \in SprintfUndefined :
          \E wild \in WildFor(pstatus) :
          LET r == dispatch_body(status, line, pstatus, units, undef, wild)
          IN  /\ tg' = r.tg
              /\ out' = out \o r.out
              /\ evt' = evt \o r.evt
              /\ DISPATCH(T_dispatch, r.ret)
    /\ UNCHANGED <<sig, hstep, tx_bufcount, planner_free, sets, edges, calls>>

dispatch == dispatch_reading(Lines, ParserStatus, UnitsModes)

(***************************************************************************)
(* Configuration from outside the controller                               *)
(***************************************************************************)
\* GRBL mode is entered by configuration, between passes
set_grbl_mode ==
    /\ pc = 0
    /\ tg.communications_mode # "TG_GRBL_MODE"
    /\ tg' = [tg EXCEPT !.communications_mode = "TG_GRBL_MODE"]
    /\ UNCHANGED <<sig, pc, hstep, ret, ran, eagain, evt, out,
                   tx_bufcount, planner_free, sets, edges, calls>>

(***************************************************************************)
(* The specification                                                       *)
(***************************************************************************)
\* the controller singleton before tg_init(): static storage, zeroed
tg_zero ==
    [src |-> "XIO_DEV_RS485", default_src |-> "XIO_DEV_RS485",
     communications_mode |-> "TG_TEXT_MODE", prompt_enabled |-> FALSE]

Init ==
    /\ \E default_src \in SerialDevices : tg = tg_init(tg_zero, default_src)
    /\ sig = [s \in Signals |-> FALSE]
    /\ pc = 0
    /\ hstep = "test"
    /\ ret = TG_OK
    /\ ran = << >>
    /\ eagain = {}
    /\ evt = << >>
    /\ out = << >>
    /\ tx_bufcount = [d \in SerialDevices |-> 0]
    /\ planner_free = TRUE
    /\ sets = [s \in Signals |-> 0]
    /\ edges = [s \in Signals |-> 0]
    /\ calls = [s \in Signals |-> 0]

controller_HSM ==
    \/ external_task
    \/ abort_handler
    \/ feedhold_handler
    \/ cycle_start_handler
    \/ sync_to_tx_buffer
    \/ sync_to_planner
    \/ dispatch

Next ==
    \/ tg_controller
    \/ controller_HSM
    \/ sig_isr
    \/ set_grbl_mode

Spec == Init /\ [][Next]_vars

(***************************************************************************)
(* The loop under fair scheduling                                          *)
(***************************************************************************)
\* the lines that are waiting on the sources: a Gcode line and a line that
\* starts the script
WaitingLines == { << "g", "0" >>, << "T" >> }

\* _dispatch() when those are the lines to read, the parser accepts them
\* and the units are millimetres
dispatch_waiting == dispatch_reading(WaitingLines, {TG_OK}, {"MILLIMETERS"})

\* the pass with those lines
controller_HSM_waiting ==
    \/ external_task
    \/ abort_handler
    \/ feedhold_handler
    \/ cycle_start_handler
    \/ sync_to_tx_buffer
    \/ sync_to_planner
    \/ dispatch_waiting

NextLive ==
    \/ tg_controller
    \/ controller_HSM_waiting
    \/ sig_isr

\* the task at position k returns something other than TG_EAGAIN: DISPATCH
\* goes on to the next task
Passes(k) == pc = k /\ pc' = k + 1

\* while (true) never stops: the next pass starts, and the task the pass
\* has come to is called and returns
LoopFairness == WF_vars(tg_controller) /\ WF_vars(controller_HSM_waiting)

\* mutant: nothing is assumed of gpio_switch_handler()
ScanProgress_none == TRUE

\* gpio_switch_handler() does not return TG_EAGAIN forever
ScanProgress == SF_vars(external_task /\ Passes(T_gpio_switch_handler))

\* nor does any of the callbacks from the status report to the homing
CallbackProgress ==
    \A k \in ExternalTasks \ {T_gpio_switch_handler} :
        SF_vars(external_task /\ Passes(k))

\* both gates open again and again
GateProgress ==
    /\ SF_vars(sync_to_tx_buffer /\ Passes(T_sync_to_tx_buffer))
    /\ SF_vars(sync_to_planner /\ Passes(T_sync_to_planner))

\* a complete line is available on the active source: xio_gets(), called
\* again and again, returns TG_OK again and again
LineAvailable == SF_vars(dispatch_waiting /\ ret' = TG_OK)

SpecLive ==
    /\ Init /\ [][NextLive]_vars
    /\ LoopFairness
    /\ ScanProgress
    /\ CallbackProgress
    /\ GateProgress
    /\ LineAvailable

(***************************************************************************)
(* The status messages, called with any status                             *)
(***************************************************************************)
\* tg_get_status_message(status, msg) called from outside the controller:
\* the status is any of StatusArgs, the text left in msg is logged
call_tg_get_status_message ==
    /\ pc = 0
    /\ \E status \in StatusArgs : \E wild \in WildFor(status) :
          evt' = << Call("tg_get_status_message", status,
                         tg_get_status_message(status, wild)) >>
    /\ out' = << >>
    /\ UNCHANGED <<tg, sig, pc, hstep, ret, ran, eagain,
                   tx_bufcount, planner_free, sets, edges, calls>>

\* _prompt_with_message(status, buf) with any status
call_prompt_with_message ==
    /\ pc = 0
    /\ \E status \in StatusArgs, buf \in Lines, units \in UnitsModes :
          \E wild \in WildFor(status) :
             /\ evt' = << Call("_prompt_with_message", status, buf) >>
             /\ out' = prompt_with_message(status, buf, units, wild)
    /\ UNCHANGED <<tg, sig, pc, hstep, ret, ran, eagain,
                   tx_bufcount, planner_free, sets, edges, calls>>

NextMessages ==
    \/ call_tg_get_status_message
    \/ call_prompt_with_message

SpecMessages == Init /\ [][NextMessages]_vars

(***************************************************************************)
(* Properties                                                              *)
(***************************************************************************)
Probed(task) == \E i \in 1 .. Len(ran) : ran[i] = task
LastProbed == IF ran = << >> THEN 0 ELSE ran[Len(ran)]
CallNames == [i \in 1 .. Len(evt) |-> evt[i].call]
Transition(s) ==
    CASE s = "sig_abort" -> "tg_reset"
      [] s = "sig_feedhold" -> "cm_feedhold"
      [] s = "sig_cycle_start" -> "cm_cycle_start"
Pending(s) == IF sig[s] THEN 1 ELSE 0
InFlight(s) == IF pc = HandlerTask(s) /\ hstep = "call" THEN 1 ELSE 0

\* C1: in every pass, a task that returned TG_EAGAIN is the last task probed
\* in that pass: no task after it in the order executes, and the pass is over.
C1_EagainEndsPass ==
    /\ \A i \in 1 .. Len(ran) : ran[i] \in eagain => i = Len(ran)
    /\ eagain # {} => pc = 0 /\ ret = TG_EAGAIN

C1_Witness ==
    /\ eagain = {T_ar_arc_callback}
    /\ Len(ran) = T_ar_arc_callback
    /\ pc = 0

\* C2: the tasks of a pass are probed in the fixed order 1..13, none skipped
\* and none twice; the pass ends only after a TG_EAGAIN or after the last
\* task, so a task that returns anything else is followed by the next task.
C2_FixedOrder ==
    /\ Len(ran) <= NumTasks
    /\ \A i \in 1 .. Len(ran) : ran[i] = i
    /\ pc # 0 => pc = Len(ran) + 1
    /\ (pc = 0 /\ ran # << >>) => (ret = TG_EAGAIN \/ Len(ran) = NumTasks)

C2_Witness ==
    /\ ret = TG_ERR
    /\ LastProbed = T_rpt_status_report_callback
    /\ pc = T_mp_plan_hold_callback

\* C3: a signal handler that finds its flag unset returns TG_NOOP and changes
\* nothing and calls nothing; one that finds it set clears the flag, then
\* calls its transition exactly once, then returns TG_EAGAIN.
C3_HandlerStep(s) ==
    /\ (pc = HandlerTask(s) /\ hstep = "test" /\ ~sig[s] /\ pc' # pc)
          => /\ ret' = TG_NOOP
             /\ pc' = HandlerTask(s) + 1
             /\ UNCHANGED <<tg, sig, hstep, evt, out, sets, edges, calls>>
    /\ (pc = HandlerTask(s) /\ hstep = "test" /\ hstep' # hstep)
          => /\ sig[s] /\ hstep' = "clear"
             /\ UNCHANGED <<tg, sig, pc, evt, out, calls>>
    /\ (pc = HandlerTask(s) /\ hstep = "clear" /\ hstep' # hstep)
          => /\ ~sig'[s] /\ hstep' = "call"
             /\ UNCHANGED <<tg, pc, out, calls>>
    /\ (pc = HandlerTask(s) /\ hstep = "call" /\ hstep' # hstep)
          => /\ calls' = [calls EXCEPT ![s] = @ + 1]
             /\ ret' = TG_EAGAIN /\ pc' = 0 /\ hstep' = "test"
             /\ UNCHANGED <<sig, out>>

C3_HandlerState(s) ==
    /\ (pc = HandlerTask(s) /\ hstep = "clear") => CallNames = << >>
    /\ (pc = HandlerTask(s) /\ hstep = "call") => CallNames = << s >>
    /\ HandlerTask(s) \in eagain => CallNames = << s, Transition(s) >>
    /\ hstep # "test" => pc \in {HandlerTask(x) : x \in Signals}

C3_SignalHandlers ==
    /\ [](\A s \in Signals : C3_HandlerState(s))
    /\ [][\A s \in Signals : C3_HandlerStep(s)]_vars

C3_Witness ==
    /\ T_feedhold_handler \in eagain
    /\ CallNames = << "sig_feedhold", "cm_feedhold" >>
    /\ ret = TG_EAGAIN

\* C4 (as stated): whenever no set event of a signal is waiting to be handled,
\* the number of calls of its transition equals the number of its set events.
C4_OnePerSetEvent ==
    \A s \in Signals :
        (Pending(s) = 0 /\ InFlight(s) = 0) => calls[s] = sets[s]

\* C4 (amended): the number of calls of a signal's transition equals the
\* number of its set events that found the flag unset, less the event still
\* waiting (flag set, or cleared with the transition not yet called); the flag
\* becomes set only by a set event and unset only by its handler's clear.
C4_OnePerEdge ==
    /\ [](\A s \in Signals :
            /\ calls[s] + Pending(s) + InFlight(s) = edges[s]
            /\ edges[s] <= sets[s])
    /\ [][\A s \in Signals :
            /\ (~sig[s] /\ sig'[s]) => sets'[s] = sets[s] + 1
            /\ (sig[s] /\ ~sig'[s]) => (pc = HandlerTask(s) /\ hstep = "clear")]_vars

C4_Witness ==
    \E s \in Signals : sets[s] = 2 /\ edges[s] = 2 /\ calls[s] = 2

C6_EofResetsSource ==
    (LastProbed = T_dispatch /\ ret = TG_EOF) =>
        /\ out = << Emit("End of command file\n", "", << >>) >>
        /\ CallNames = << "xio_gets", "tg_reset_source" >>
        /\ pc = 0
        /\ tg.src = tg.default_src

C6_Witness ==
    /\ LastProbed = T_dispatch
    /\ ret = TG_EOF
    /\ Len(evt) = 2
    /\ evt[1].src = XIO_DEV_PGM
    /\ tg.src = tg.default_src

\* C7: _dispatch() runs in a pass only after both gates returned TG_OK in that
\* pass, so never with the USB TX depth at or above the mark or without a free
\* planner buffer; a gate that fails ends the pass with every task before the
\* gates probed and with no line read, no parser called and nothing written.
C7_GatesBeforeDispatch ==
    /\ (Probed(T_dispatch) \/ \E i \in 1 .. Len(evt) : evt[i].call = "xio_gets") =>
          /\ Probed(T_sync_to_tx_buffer) /\ Probed(T_sync_to_planner)
          /\ tx_bufcount[XIO_DEV_USB] < XOFF_TX_LO_WATER_MARK
          /\ planner_free
          /\ eagain \cap {T_sync_to_tx_buffer, T_sync_to_planner} = {}
    /\ (Probed(T_sync_to_tx_buffer)
           /\ tx_bufcount[XIO_DEV_USB] >= XOFF_TX_LO_WATER_MARK)
          => ~Probed(T_dispatch)
    /\ (Probed(T_sync_to_planner) /\ ~planner_free) => ~Probed(T_dispatch)
    /\ eagain \cap {T_sync_to_tx_buffer, T_sync_to_planner} # {} =>
          /\ \A k \in 1 .. T_cm_return_to_home_callback : Probed(k)
          /\ ~Probed(T_dispatch)
          /\ evt = << >> /\ out = << >>

C7_Witness ==
    /\ eagain = {T_sync_to_planner}
    /\ ~planner_free
    /\ Len(ran) = T_sync_to_planner
    /\ pc = 0

\* C8 (as stated): the transmit gate returns TG_EAGAIN exactly when the TX
\* depth of the active device is at or above the mark.
C8_GateOnActiveDevice ==
    (LastProbed = T_sync_to_tx_buffer /\ tg.src \in SerialDevices) =>
        (ret = TG_EAGAIN <=> tx_bufcount[tg.src] >= XOFF_TX_LO_WATER_MARK)

\* C8 (amended): the transmit gate returns TG_EAGAIN exactly when the TX
\* depth of the USB device is at or above the mark, and TG_OK exactly when it
\* is below, whatever the active source is; the gate changes no state, so its
\* result in a pass depends on the depth read in that pass only.
C8_GateOnUsbDevice ==
    /\ [](LastProbed = T_sync_to_tx_buffer =>
            /\ ret \in {TG_OK, TG_EAGAIN}
            /\ ret = TG_EAGAIN <=> tx_bufcount[XIO_DEV_USB] >= XOFF_TX_LO_WATER_MARK
            /\ ret = TG_OK <=> tx_bufcount[XIO_DEV_USB] < XOFF_TX_LO_WATER_MARK)
    /\ [][(pc = T_sync_to_tx_buffer /\ pc' # pc)
            => UNCHANGED <<tg, sig, hstep, evt, out, sets, edges, calls>>]_vars

C8_Witness ==
    /\ LastProbed = T_sync_to_tx_buffer
    /\ tg.src = "XIO_DEV_RS485"
    /\ tx_bufcount["XIO_DEV_RS485"] >= XOFF_TX_LO_WATER_MARK
    /\ tx_bufcount[XIO_DEV_USB] < XOFF_TX_LO_WATER_MARK
    /\ ret = TG_OK

\* C9: the planner gate returns TG_EAGAIN exactly when mp_test_write_buffer()
\* reports no free buffer and TG_OK exactly when it reports one, in every
\* pass; the gate changes no state.
C9_PlannerGate ==
    /\ [](LastProbed = T_sync_to_planner =>
            /\ ret \in {TG_OK, TG_EAGAIN}
            /\ ret = TG_EAGAIN <=> ~planner_free
            /\ ret = TG_OK <=> planner_free)
    /\ [][(pc = T_sync_to_planner /\ pc' # pc)
            => UNCHANGED <<tg, sig, hstep, evt, out, sets, edges, calls>>]_vars

C9_Witness ==
    /\ LastProbed = T_sync_to_planner
    /\ ~planner_free
    /\ ret = TG_EAGAIN
    /\ pc = 0

\* a line was read by _dispatch() in this step, in GRBL mode
GrblLineRead ==
    /\ pc = T_dispatch
    /\ tg.communications_mode = "TG_GRBL_MODE"
    /\ pc' = 0
    /\ ret' = TG_OK

\* C10 (as stated): a line read in GRBL mode is answered by exactly "ok" or
\* exactly "err", whatever the line.
C10_GrblAnyLine ==
    [][GrblLineRead =>
          out' \in { << Emit("ok", "", << >>) >>, << Emit("err", "", << >>) >> }]_vars

\* C10 (amended): a line read in GRBL mode whose first character is none of
\* H, T, U and { is answered by exactly "ok" when its parser returns TG_OK (an
\* empty line has no parser) and by exactly "err" otherwise; an H line is
\* answered by the help text and "ok", a T or U line by nothing, and a { line
\* by the JSON parser's buffer, the mode being JSON from then on.
C10_GrblTerse ==
    [][GrblLineRead =>
          LET c == toupper(FirstChar(evt'[1].buf))
          IN  CASE c \in {"T", "U"} -> out' = << >>
                [] c = "H" ->
                      out' = << Emit("help_print_general_help", "", << >>),
                                Emit("ok", "", << >>) >>
                [] c = "{" ->
                      /\ out' = << Emit("%s", "", evt'[3].buf) >>
                      /\ tg'.communications_mode = "TG_JSON_MODE"
                [] OTHER ->
                      /\ out' = << Emit(IF evt'[2].st = TG_OK THEN "ok" ELSE "err",
                                        "", << >>) >>
                      /\ evt'[2].call \in {"_dispatch_return", "cfg_config_parser",
                                           "gc_gcode_parser"}
                      /\ tg'.communications_mode = "TG_GRBL_MODE"]_vars

C10_Witness ==
    /\ LastProbed = T_dispatch
    /\ tg.communications_mode = "TG_GRBL_MODE"
    /\ Len(evt) = 3
    /\ evt[2].call = "gc_gcode_parser"
    /\ evt[2].st = TG_UNRECOGNIZED_COMMAND
    /\ out = << Emit("err", "", << >>) >>

\* the line read by _dispatch() in this pass (xio_gets() returned TG_OK)
LineRead == LastProbed = T_dispatch /\ evt # << >> /\ evt[1].st = TG_OK
TheLine == evt[1].buf
LineChar == toupper(FirstChar(TheLine))
GcodeLine == LineChar \notin {NUL, "H", "T", "U", "$", "?", "{"}
IsPrompt(e) == e.fmt = "%S%S"

\* C11: a Gcode line read in JSON mode is parsed once and answered by the
\* envelope alone: the group marker, the text of the line, the status the
\* Gcode parser returned as an integer, and the message of that status.
C11_JsonGcodeEnvelope ==
    (LineRead /\ GcodeLine /\ evt[1].mode = "TG_JSON_MODE") =>
        /\ CallNames = << "xio_gets", "gc_gcode_parser",
                          "tg_make_json_gcode_response", "_dispatch_return" >>
        /\ evt[2].buf = TheLine
        /\ out = << Emit("%s", "",
                         << "gc", "{", "gc" >> \o TheLine
                            \o << "st", ToString(evt[2].st),
                                  "msg", StatusMessage(evt[2].st) >>) >>

\* the call of _dispatch_return() of this pass, and what it wrote
Returned == evt # << >> /\ evt[Len(evt)].call = "_dispatch_return"
TheReturn == evt[Len(evt)]
Response ==
    IF out # << >> /\ out[1].fmt = "help_print_general_help"
       THEN Tail(out) ELSE out
Prompts == { Emit("%S%S", pr1, << pr_in >>), Emit("%S%S", pr1, << pr_mm >>) }

\* C12: in text mode _dispatch_return(status, buf) writes the prompt alone for
\* TG_OK, TG_EAGAIN and TG_NOOP, and for every other status the message of the
\* status with the buffer, followed by the prompt.
C12_TextModeEmitter ==
    (Returned /\ TheReturn.mode = "TG_TEXT_MODE") =>
        IF TheReturn.st \in {TG_OK, TG_EAGAIN, TG_NOOP}
           THEN Len(Response) = 1 /\ Response[1] \in Prompts
           ELSE /\ Len(Response) = 2
                /\ Response[1] = Emit("%S: %s \n", StatusMessage(TheReturn.st),
                                      TheReturn.buf)
                /\ Response[2] \in Prompts

C12_Witness ==
    /\ Returned
    /\ TheReturn.mode = "TG_TEXT_MODE"
    /\ TheReturn.st = TG_UNRECOGNIZED_COMMAND
    /\ TheReturn.buf = << "g", "0" >>
    /\ Len(out) = 2
    /\ out[1].msg = "Unrecognized command"

\* C13: nothing read from the program-memory source is answered by a prompt:
\* when _dispatch_return() is called with XIO_DEV_PGM active, no prompt is
\* written, whatever the mode and the status.
C13_NoPromptFromScript ==
    (Returned /\ TheReturn.src = XIO_DEV_PGM) =>
        \A i \in 1 .. Len(out) : ~IsPrompt(out[i])

\* C14: prompting is disabled exactly while the program-memory source is the
\* active source.
C14_PromptEnabledIffNotPgm ==
    tg.prompt_enabled <=> tg.src # XIO_DEV_PGM

C14_Witness ==
    /\ LastProbed = T_dispatch
    /\ ret = TG_EOF
    /\ evt[1].src = XIO_DEV_PGM
    /\ tg.src # XIO_DEV_PGM
    /\ tg.prompt_enabled

\* the step in which _dispatch() reads a line, and the mode the switch on
\* its first character leaves
LineReadStep == pc = T_dispatch /\ pc' # pc /\ evt' # << >> /\ evt'[1].st = TG_OK
AbortResetStep == pc = T_abort_handler /\ hstep = "call" /\ hstep' # hstep
ModeAfterLine(mode, line) ==
    LET c == toupper(FirstChar(line))
    IN  CASE c \in {"$", "?"} ->
                IF mode = "TG_GRBL_MODE" THEN mode ELSE "TG_TEXT_MODE"
          [] c = "{" -> "TG_JSON_MODE"
          [] OTHER -> mode

C16_JsonLineAnsweredInJson ==
    (LineRead /\ LineChar = "{") =>
        /\ CallNames = << "xio_gets", "js_json_parser", "_dispatch_return" >>
        /\ evt[2].mode = "TG_JSON_MODE"
        /\ evt[2].buf = TheLine
        /\ evt[3].mode = "TG_JSON_MODE"
        /\ evt[3].st = evt[2].st
        /\ evt[3].buf = js_json_parser_out(TheLine, evt[2].st)
        /\ out = << Emit("%s", "", evt[3].buf) >>

C16_Witness ==
    /\ LineRead
    /\ LineChar = "{"
    /\ evt[1].mode = "TG_TEXT_MODE"
    /\ evt[2].st = TG_JSON_SYNTAX_ERROR
    /\ out = << Emit("%s", "",
                     js_json_parser_out(<< "{", "b", "}" >>, TG_JSON_SYNTAX_ERROR)) >>

\* the result the lookup is said to give for a code outside the table
UnknownStatusMessage == "Unknown status"

\* a status outside msgStatus[]
OutOfRange(status) == status \notin 0 .. Len(msgStatus) - 1

\* C17: for every status given to tg_get_status_message() or to
\* _prompt_with_message(), the message is read inside msgStatus[]: a status
\* outside the table gives the generic unknown-status message, never what
\* lies past the end of the table in program memory.
C17_LookupInRange ==
    (evt # << >> /\ OutOfRange(evt[1].st)) =>
        /\ evt[1].call = "tg_get_status_message" =>
                evt[1].buf = << UnknownStatusMessage >>
        /\ evt[1].call = "_prompt_with_message" =>
                out[1].msg = UnknownStatusMessage

\* task k returned TG_EAGAIN if it ran in the current pass
Blocks(k) == Probed(k) => k \in eagain

\* no task after k has run in the current pass, and none is about to
Starved(k) == \A j \in k + 1 .. NumTasks : ~Probed(j) /\ pc # j

\* C18: a task that returns TG_EAGAIN on every pass it runs in keeps every
\* task after it in the order from ever running: pass after pass ends at
\* that task, whatever the number of passes, and nothing in the loop lets a
\* later task through.
C18_Starvation ==
    \A k \in 1 .. NumTasks - 1 : []([]Blocks(k) => []Starved(k))

\* the abort request is pending and the pass has ended at the first task
C18_Witness ==
    /\ pc = 0
    /\ eagain = {T_gpio_switch_handler}
    /\ sig["sig_abort"]
    /\ calls["sig_abort"] = 0

\* the action a line is to get, from its first character in either case
LineClass(line) ==
    LET c == FirstChar(line)
    IN  CASE c = NUL -> "null"
          [] c \in {"h", "H"} -> "help"
          [] c \in {"t", "T", "u", "U"} -> "test"
          [] c \in {"$", "?"} -> "config"
          [] c = "{" -> "json"
          [] OTHER -> "gcode"

\* what _dispatch() calls after xio_gets() for each action
ClassCalls(class, mode) ==
    CASE class = "null" -> << "_dispatch_return" >>
      [] class = "help" -> << "help_print_general_help", "_dispatch_return" >>
      [] class = "test" -> << "xio_open_pgm" >>
      [] class = "config" -> << "cfg_config_parser", "_dispatch_return" >>
      [] class = "json" -> << "js_json_parser", "_dispatch_return" >>
      [] class = "gcode" ->
            IF mode = "TG_JSON_MODE"
               THEN << "gc_gcode_parser", "tg_make_json_gcode_response",
                       "_dispatch_return" >>
               ELSE << "gc_gcode_parser", "_dispatch_return" >>

Parsers == {"cfg_config_parser", "js_json_parser", "gc_gcode_parser"}

\* C19: every line read is given exactly one action, chosen by its first
\* character without regard to case (empty, help, test, configuration, JSON,
\* and Gcode for all the rest); at most one parser is called, once, and
\* _dispatch() returns TG_OK whatever the parser returned.
C19_OneActionPerLine ==
    LineRead =>
        /\ CallNames = << "xio_gets" >>
                            \o ClassCalls(LineClass(TheLine), evt[1].mode)
        /\ Cardinality({i \in 1 .. Len(evt) : evt[i].call \in Parsers}) <= 1
        /\ LineClass(TheLine) = "test" => tg.src = XIO_DEV_PGM
        /\ ret = TG_OK

\* a lower-case help line got the help action; a Gcode line the parser
\* refused still ended in TG_OK
C19_Witness ==
    /\ LineRead
    /\ ret = TG_OK
    /\ \/ TheLine = << "h" >> /\ CallNames[2] = "help_print_general_help"
       \/ /\ LineClass(TheLine) = "gcode"
          /\ evt[2].st = TG_UNRECOGNIZED_COMMAND

\* an empty line or a help line was read
AckLine == LineRead /\ LineClass(TheLine) \in {"null", "help"}

\* C20: an empty line and an H line are acknowledged with no message in
\* every communications mode: in text mode the response is the prompt alone,
\* in GRBL mode "ok" alone, and in JSON mode it holds neither a message nor
\* the text of the line.
C20_AckWithoutMessage ==
    AckLine =>
        /\ Returned
        /\ TheReturn.st = TG_OK
        /\ TheReturn.mode = "TG_TEXT_MODE" => << Response[1] >> = Response
                                              /\ Response[1] \in Prompts
        /\ TheReturn.mode = "TG_GRBL_MODE" =>
                Response = << Emit("ok", "", << >>) >>
        /\ TheReturn.mode = "TG_JSON_MODE" =>
                \A i \in 1 .. Len(Response) :
                    Response[i].msg = "" /\ Response[i].buf = << >>

\* a step that changes the active source is one of: a T or U line read by
\* _dispatch() (to the script), TG_EOF from xio_gets() (to the default), the
\* reset of the abort handler (to the default)
SourceChange ==
    tg'.src # tg.src =>
        \/ /\ LineReadStep
           /\ LineClass(evt'[1].buf) = "test"
           /\ evt'[Len(evt')].call = "xio_open_pgm"
           /\ tg'.src = XIO_DEV_PGM
        \/ /\ pc = T_dispatch
           /\ ret' = TG_EOF
           /\ evt'[Len(evt')].call = "tg_reset_source"
           /\ tg'.src = tg.default_src
        \/ /\ AbortResetStep
           /\ tg'.src = tg.default_src

Clearing(s) == pc = HandlerTask(s) /\ hstep = "clear"

\* the handler of s has cleared the flag and is running its transition
Handling(s) == pc = HandlerTask(s) /\ hstep = "call"

\* C22: a flag that is set stays set through every step but the clearing
\* statement of its own handler, the transition of that handler and of the
\* other handlers included, so a flag set while its handler runs the
\* transition, or later, is still set when the handler is next probed; a
\* handler probed with its flag set does not pass on to the next task: it
\* clears the flag and calls the transition once more.
C22_SetDuringHandling ==
    [][\A s \in Signals :
          /\ (sig[s] /\ ~Clearing(s)) => sig'[s]
          /\ (pc = HandlerTask(s) /\ hstep = "test" /\ sig[s])
                => /\ pc' = pc
                   /\ hstep' \in {"test", "clear"}
                   /\ calls' = calls
          /\ (Clearing(s) /\ hstep' # hstep) => Handling(s)'
          /\ (Handling(s) /\ hstep' # hstep)
                => calls'[s] = calls[s] + 1]_vars

\* the feedhold flag was set again while cm_feedhold() was running
C22_Witness ==
    /\ Handling("sig_feedhold")
    /\ sig["sig_feedhold"]
    /\ sets["sig_feedhold"] = 2

\* the entries of evt that are calls of one of names
CallsOf(names) == {i \in 1 .. Len(evt) : evt[i].call \in names}

\* the handler of s has handled its signal in this pass
Handled(s) == HandlerTask(s) \in eagain

\* the handlers probed before the handler of s
Before(s) == {r \in Signals : HandlerTask(r) < HandlerTask(s)}

\* the tasks from the status report to _dispatch()
AfterHandlers == T_rpt_status_report_callback .. T_dispatch

\* what holds of a pass in which a signal is handled
OneSignalPerPass ==
    /\ Cardinality(CallsOf(Signals)) <= 1
    /\ Cardinality(CallsOf({Transition(s) : s \in Signals})) <= 1
    /\ hstep # "test" => \A j \in AfterHandlers : ~Probed(j)
    /\ \A s \in Signals :
          Handled(s) =>
              /\ pc = 0
              /\ LastProbed = HandlerTask(s)
              /\ CallNames = << s, Transition(s) >>
              /\ \A j \in AfterHandlers : ~Probed(j)
              /\ \A r \in Before(s) :
                    Probed(HandlerTask(r)) /\ ~Handled(r)
              /\ \A r \in Signals \ {s} : calls[r] + Pending(r) = edges[r]

\* a handler that clears its flag and runs its transition leaves the flags
\* of the other signals as they are
OthersKept ==
    \A s \in Signals :
        (pc = HandlerTask(s) /\ hstep # "test" /\ hstep' # hstep) =>
            \A r \in Signals \ {s} : sig'[r] = sig[r]

C24_Progress ==
    /\ []<>LineRead
    /\ \A s \in Signals : (sig[s] /\ ~Handled(s)) ~> Handled(s)

\* a line is read and dispatched after an abort and a feedhold were handled
C24_Witness ==
    /\ LineRead
    /\ calls["sig_abort"] = 1
    /\ calls["sig_feedhold"] = 1

====
